---- MODULE Spec2Model ----
(***************************************************************************)
(* A model of the check combinator library, in its two renderings          *)
(* (src/check.ts and src/check.js).                                        *)
(*                                                                         *)
(* A check is a closure; it is modelled by the record of what it closes    *)
(* over (its kind `k` and its captured arguments) and Apply runs its body. *)
(* A JavaScript call either returns a value or throws: every operation     *)
(* yields an outcome [k |-> "undefined"], [k |-> "error", e |-> record],   *)
(* [k |-> "result", ...], [k |-> "made", ...] or [k |-> "throw", ...].     *)
(* The module-level sentinel Error objects are shared mutable objects:     *)
(* the fields written onto them live in the variable `heap`.               *)
(***************************************************************************)
EXTENDS Integers, Sequences, FiniteSets, TLC

VARIABLES
    impl,   \* which rendering is loaded: "ts" (check.ts) or "js" (check.js)
    heap,   \* the locator fields written onto each module-level sentinel
    pc,     \* the caller: "idle" before a call, "returned" once it is over
    call,   \* the call just made: a factory, a check applied, or check()
    ret,    \* what that call returned or threw
    calls   \* the sub-check invocations that call made itself, in order

vars == <<impl, heap, pc, call, ret, calls>>

(* ------------------------------ bounds --------------------------------- *)
\* longest array a caller passes to a check
MaxLen == 2
\* longest list of checks handed to check(), logic.and() and logic.or()
MaxChecks == 2

(* --------------------------- JavaScript values -------------------------- *)
Keys == {"a", "b"}

Undefined == [t |-> "undefined"]
Num(n) == [t |-> "number", n |-> n]
Str(s) == [t |-> "string", s |-> s]
\* a constructor or other named function
Fn(name) == [t |-> "function", name |-> name]
\* an object literal; a field the literal does not set reads as undefined
Obj(f) == [t |-> "object", f |-> f]
\* an array; alloc tells the array a factory's rest parameter allocates
\* ("rest") from the arrays a caller builds ("caller"): two arrays are the
\* same object only if they are the same allocation
Arr(alloc, el) == [t |-> "array", alloc |-> alloc, el |-> el]

IsCheck(x) == "k" \in DOMAIN x

IsUndefined(x) == "t" \in DOMAIN x /\ x.t = "undefined"

\* typeof x
TypeOf(x) ==
    IF IsCheck(x) THEN "function"
    ELSE IF x.t = "array" THEN "object"
    ELSE x.t

\* x === y
StrictEq(x, y) ==
    IF IsCheck(x) \/ IsCheck(y) THEN x = y
    ELSE IF x.t # y.t THEN FALSE
    ELSE x = y

\* x?.constructor
Constructor(x) ==
    CASE x.t = "undefined" -> Undefined
      [] x.t = "number"    -> Fn("Number")
      [] x.t = "string"    -> Fn("String")
      [] x.t = "object"    -> Fn("Object")
      [] x.t = "array"     -> Fn("Array")
      [] x.t = "function"  -> Fn("Function")

\* Symbol.iterator in x : the `in` operator throws a TypeError when its
\* right operand is not an object
HasIterator(x) ==
    CASE x.t \in {"undefined", "number", "string"} -> "TypeError"
      [] x.t = "array"                             -> "true"
      [] OTHER                                     -> "false"

\* x[key] : reading a property of undefined throws a TypeError
CanRead(x) == x.t # "undefined"

Get(x, key) ==
    IF x.t = "object" THEN x.f[key] ELSE Undefined

(* ------------------------------ outcomes -------------------------------- *)
RetUndefined == [k |-> "undefined"]
RetError(e) == [k |-> "error", e |-> e]
Throw(name) == [k |-> "throw", name |-> name]
Made(c) == [k |-> "made", check |-> c]

\* what one application of a check yields: its outcome, the sentinel heap
\* after it, and the sub-check invocations it made itself, in order
Ran(out, h, cs) == [out |-> out, h |-> h, calls |-> cs]

(* ---------------------------- failure records --------------------------- *)
\* new CheckErr({expected, received}) : Object.assign copies the argument's
\* own fields onto the new error
CheckErr(fields) == [cls |-> "CheckErr"] @@ fields

\* new AggregateError(errs)
AggregateError(errs) == [cls |-> "AggregateError", errors |-> errs]

\* the module-level constants, by implementation
Sentinels(im) ==
    IF im = "ts"
    THEN {"ErrCheckHasNoChecks", "ErrNoOptions", "ErrNotIterable"}
    ELSE {"ErrCheckHasNoChecks", "ErrExpectedFunction", "ErrExpectedPropertyKey",
          "ErrExpectedOneArgument", "ErrNoOptions", "ErrNotIterable"}

\* a reference to one of them
Sentinel(name) == [cls |-> "Error", ref |-> name]

IsSentinel(e) == "ref" \in DOMAIN e

\* new Error(...) carries no locator field
Pristine == [index |-> {}, property |-> {}]

\* err[field] = val : a write through a reference to a sentinel changes the
\* shared object, any other record is the caller's own
SetField(e, field, val, h) ==
    IF IsSentinel(e)
    THEN [e |-> e, h |-> [h EXCEPT ![e.ref][field] = {val}]]
    ELSE [e |-> (field :> val) @@ e, h |-> h]

\* err[field], as the set of values it holds (empty when the field is absent)
Field(e, field, h) ==
    IF IsSentinel(e) THEN h[e.ref][field]
    ELSE IF field \in DOMAIN e THEN {e[field]}
    ELSE {}

(* ------------------------- the closures' bodies ------------------------- *)
RECURSIVE Apply(_, _, _, _)
RECURSIVE ForOfLoop(_, _, _, _, _, _, _)
RECURSIVE PropertiesLoop(_, _, _, _, _, _, _)
RECURSIVE AndLoop(_, _, _, _, _, _, _)
RECURSIVE OrLoop(_, _, _, _, _, _, _)
RECURSIVE CheckLoop(_, _, _, _, _, _, _)
RECURSIVE ForOfTurn(_, _, _, _, _, _, _)
RECURSIVE PropertiesTurn(_, _, _, _, _, _, _)
RECURSIVE AndTurn(_, _, _, _, _, _, _)
RECURSIVE OrTurn(_, _, _, _, _, _, _)
RECURSIVE CheckTurn(_, _, _, _, _, _, _)

\* the state of a loop over sub-checks: stop is "no" while the loop runs to
\* its end, "return" when the body returned early and "throw" when a call
\* inside the body threw (out is then what was thrown)
Looped(stop, out, errs, h, cs) ==
    [stop |-> stop, out |-> out, errs |-> errs, h |-> h, calls |-> cs]

\* one recorded invocation of a sub-check: its position in the list (or in
\* the iteration, or among the keys) and the argument it was given
Invoked(i, arg) == [i |-> i, arg |-> arg]

\* expect.any(...expected)(received) : the loop compares received with the
\* rest array itself at every turn
call_expect_any(expected, received) ==
    IF \E i \in 1..Len(expected.el) : StrictEq(received, expected)
    THEN RetUndefined
    ELSE RetError(CheckErr([expected |-> expected, received |-> received]))

\* expect.value(expected)(received)
call_expect_value(expected, received) ==
    IF StrictEq(received, expected)
    THEN RetUndefined
    ELSE RetError(CheckErr([expected |-> expected, received |-> received]))

\* expect.not(...expected)(received) : a turn whose comparison
\* received !== expected is true continues, the first other turn returns
call_expect_not(expected, received) ==
    IF \E i \in 1..Len(expected.el) : ~(~StrictEq(received, expected))
    THEN RetError(CheckErr([expected |-> expected, received |-> received]))
    ELSE RetUndefined

\* expect.type(expected)(received), check.ts
call_expect_type_ts(expected, received) ==
    IF StrictEq(Constructor(received), expected)
    THEN RetUndefined
    ELSE RetError(CheckErr([expected |-> expected,
                            received |-> Constructor(received)]))

\* expect.type(expected)(received), check.js : typeof binds tighter than ===
call_expect_type_js(expected, received) ==
    IF StrictEq(Str(TypeOf(Constructor(received))), expected)
    THEN RetUndefined
    ELSE RetError(CheckErr([expected |-> expected,
                            received |-> Constructor(received)]))

\* for (const value of received) { const err = check(value); ... i++ }
\* el[i] is the element at the zero-based position i - 1; ForOfTurn is the
\* rest of one turn, a being what check(value) gave
ForOfLoop(im, check, el, i, errs, h, cs) ==
    IF i > Len(el) THEN Looped("no", RetUndefined, errs, h, cs)
    ELSE ForOfTurn(im, check, el, i, errs, Append(cs, Invoked(i - 1, el[i])),
                   Apply(im, check, el[i], h))

ForOfTurn(im, check, el, i, errs, cs, a) ==
    IF a.out.k = "throw" THEN Looped("throw", a.out, errs, a.h, cs)
    ELSE IF a.out.k # "undefined"
    THEN ForOfLoop(im, check, el, i + 1,
                   Append(errs, SetField(a.out.e, "index", i - 1, a.h).e),
                   SetField(a.out.e, "index", i - 1, a.h).h, cs)
    ELSE ForOfLoop(im, check, el, i + 1, errs, a.h, cs)

\* expect.forOf(check)(received), check.ts, after its iterable test: r is
\* what the loop gave
forOf_return_ts(check, received, r) ==
    IF r.stop = "throw" THEN Ran(r.out, r.h, r.calls)
    ELSE IF Len(r.errs) > 0
    THEN Ran(RetError(CheckErr([expected |-> check, received |-> received,
                                errs |-> r.errs])), r.h, r.calls)
    ELSE Ran(RetUndefined, r.h, r.calls)

\* expect.forOf(check)(received), check.ts
call_expect_forOf_ts(check, received, h) ==
    IF HasIterator(received) = "TypeError" THEN Ran(Throw("TypeError"), h, <<>>)
    ELSE IF HasIterator(received) = "false"
    THEN Ran(RetError(CheckErr([expected |-> check, received |-> received,
                                err |-> Sentinel("ErrNotIterable")])), h, <<>>)
    ELSE forOf_return_ts(check, received,
                         ForOfLoop("ts", check, received.el, 1, <<>>, h, <<>>))

\* expect.forOf(check)(received), check.js, after its iterable test
forOf_return_js(r) ==
    IF r.stop = "throw" THEN Ran(r.out, r.h, r.calls)
    ELSE IF Len(r.errs) > 0
    THEN Ran(RetError(AggregateError(r.errs)), r.h, r.calls)
    ELSE Ran(RetUndefined, r.h, r.calls)

\* expect.forOf(check)(received), check.js
call_expect_forOf_js(check, received, h) ==
    IF HasIterator(received) = "TypeError" THEN Ran(Throw("TypeError"), h, <<>>)
    ELSE IF HasIterator(received) = "false"
    THEN Ran(RetError(Sentinel("ErrNotIterable")), h, <<>>)
    ELSE forOf_return_js(ForOfLoop("js", check, received.el, 1, <<>>, h, <<>>))

\* for (const key of Object.keys(expected)) { ... } : ent lists the map's
\* entries in Object.keys order; PropertiesTurn is the rest of one turn, a
\* being what expected[key](received[key]) gave
PropertiesLoop(im, ent, received, i, errs, h, cs) ==
    IF i > Len(ent) THEN Looped("no", RetUndefined, errs, h, cs)
    ELSE IF ~CanRead(received) THEN Looped("throw", Throw("TypeError"), errs, h, cs)
    ELSE PropertiesTurn(im, ent, received, i, errs,
                        Append(cs, Invoked(i, Get(received, ent[i].key))),
                        Apply(im, ent[i].check, Get(received, ent[i].key), h))

PropertiesTurn(im, ent, received, i, errs, cs, a) ==
    IF a.out.k = "throw" THEN Looped("throw", a.out, errs, a.h, cs)
    ELSE IF a.out.k = "undefined"
    THEN PropertiesLoop(im, ent, received, i + 1, errs, a.h, cs)
    ELSE PropertiesLoop(im, ent, received, i + 1,
                        Append(errs, SetField(a.out.e, "property", ent[i].key, a.h).e),
                        SetField(a.out.e, "property", ent[i].key, a.h).h, cs)

\* expect.properties(expected)(received), check.ts : r is what the loop gave
call_expect_properties_ts(expected, received, r) ==
    IF r.stop = "throw" THEN Ran(r.out, r.h, r.calls)
    ELSE IF Len(r.errs) > 0
    THEN Ran(RetError(CheckErr([expected |-> expected, received |-> received,
                                errs |-> r.errs])), r.h, r.calls)
    ELSE Ran(RetUndefined, r.h, r.calls)

\* expect.properties(object)(received), check.js : r is what the loop gave
call_expect_properties_js(object, received, r) ==
    IF r.stop = "throw" THEN Ran(r.out, r.h, r.calls)
    ELSE IF Len(r.errs) > 0
    THEN Ran(RetError(AggregateError(r.errs)), r.h, r.calls)
    ELSE Ran(RetUndefined, r.h, r.calls)

\* logic.and's loop: a turn whose err is defined continues, any other turn
\* pushes its err (which is undefined); AndTurn is the rest of one turn, a
\* being what checks[i](received) gave
AndLoop(im, checks, received, i, errs, h, cs) ==
    IF i > Len(checks) THEN Looped("no", RetUndefined, errs, h, cs)
    ELSE AndTurn(im, checks, received, i, errs, Append(cs, Invoked(i, received)),
                 Apply(im, checks[i], received, h))

AndTurn(im, checks, received, i, errs, cs, a) ==
    IF a.out.k = "throw" THEN Looped("throw", a.out, errs, a.h, cs)
    ELSE IF a.out.k # "undefined"
    THEN AndLoop(im, checks, received, i + 1, errs, a.h, cs)
    ELSE AndLoop(im, checks, received, i + 1, Append(errs, Undefined), a.h, cs)

\* logic.and(...checks)(received), check.ts : r is what the loop gave
call_logic_and_ts(checks, received, r) ==
    IF r.stop = "throw" THEN Ran(r.out, r.h, r.calls)
    ELSE IF Len(r.errs) > 0
    THEN Ran(RetError(CheckErr([expected |-> checks, received |-> received,
                                errs |-> r.errs])), r.h, r.calls)
    ELSE Ran(RetUndefined, r.h, r.calls)

\* logic.and(...checks)(received), check.js : r is what the loop gave
call_logic_and_js(checks, received, r) ==
    IF r.stop = "throw" THEN Ran(r.out, r.h, r.calls)
    ELSE IF Len(r.errs) > 0
    THEN Ran(RetError(AggregateError(r.errs)), r.h, r.calls)
    ELSE Ran(RetUndefined, r.h, r.calls)

\* logic.or's loop: the first turn whose err is undefined returns; OrTurn is
\* the rest of one turn, a being what checks[i](received) gave
OrLoop(im, checks, received, i, errs, h, cs) ==
    IF i > Len(checks) THEN Looped("no", RetUndefined, errs, h, cs)
    ELSE OrTurn(im, checks, received, i, errs, Append(cs, Invoked(i, received)),
                Apply(im, checks[i], received, h))

\* OrTurn without its early return: a turn whose err is undefined goes on to
\* the next check instead of returning
OrTurn_NoEarlyReturn(im, checks, received, i, errs, cs, a) ==
    IF a.out.k = "throw" THEN Looped("throw", a.out, errs, a.h, cs)
    ELSE IF a.out.k = "undefined"
    THEN OrLoop(im, checks, received, i + 1, errs, a.h, cs)
    ELSE OrLoop(im, checks, received, i + 1, Append(errs, a.out.e), a.h, cs)

OrTurn(im, checks, received, i, errs, cs, a) ==
    IF a.out.k = "throw" THEN Looped("throw", a.out, errs, a.h, cs)
    ELSE IF a.out.k = "undefined"
    THEN Looped("return", RetUndefined, errs, a.h, cs)
    ELSE OrLoop(im, checks, received, i + 1, Append(errs, a.out.e), a.h, cs)

\* logic.or(...checks)(received), check.ts : r is what the loop gave; `check`
\* in its failure record names the module's check function
call_logic_or_ts(checks, received, r) ==
    IF r.stop # "no" THEN Ran(r.out, r.h, r.calls)
    ELSE Ran(RetError(CheckErr([expected |-> Fn("check"), received |-> received,
                                errs |-> r.errs])), r.h, r.calls)

\* logic.or(...checks)(received), check.js : r is what the loop gave
call_logic_or_js(checks, received, r) ==
    IF r.stop # "no" THEN Ran(r.out, r.h, r.calls)
    ELSE Ran(RetError(AggregateError(r.errs)), r.h, r.calls)

\* check's loop: every defined err is pushed onto res.errors; CheckTurn is
\* the rest of one turn, a being what checks[i](received) gave
CheckLoop(im, checks, received, i, errs, h, cs) ==
    IF i > Len(checks) THEN Looped("no", RetUndefined, errs, h, cs)
    ELSE CheckTurn(im, checks, received, i, errs, Append(cs, Invoked(i, received)),
                   Apply(im, checks[i], received, h))

CheckTurn(im, checks, received, i, errs, cs, a) ==
    IF a.out.k = "throw" THEN Looped("throw", a.out, errs, a.h, cs)
    ELSE IF a.out.k # "undefined"
    THEN CheckLoop(im, checks, received, i + 1, Append(errs, a.out.e), a.h, cs)
    ELSE CheckLoop(im, checks, received, i + 1, errs, a.h, cs)

\* c(v) : the call of a closure built by implementation im
Apply(im, c, v, h) ==
    CASE c.k = "any"   -> Ran(call_expect_any(c.expected, v), h, <<>>)
      [] c.k = "value" -> Ran(call_expect_value(c.expected, v), h, <<>>)
      [] c.k = "not"   -> Ran(call_expect_not(c.expected, v), h, <<>>)
      [] c.k = "type"  -> Ran(IF im = "ts" THEN call_expect_type_ts(c.expected, v)
                              ELSE call_expect_type_js(c.expected, v), h, <<>>)
      [] c.k = "forOf" -> IF im = "ts" THEN call_expect_forOf_ts(c.check, v, h)
                          ELSE call_expect_forOf_js(c.check, v, h)
      [] c.k = "properties" ->
            IF im = "ts"
            THEN call_expect_properties_ts(c.expected, v,
                     PropertiesLoop("ts", c.expected.ent, v, 1, <<>>, h, <<>>))
            ELSE call_expect_properties_js(c.expected, v,
                     PropertiesLoop("js", c.expected.ent, v, 1, <<>>, h, <<>>))
      [] c.k = "and" ->
            IF im = "ts"
            THEN call_logic_and_ts(c.checks, v,
                     AndLoop("ts", c.checks.el, v, 1, <<>>, h, <<>>))
            ELSE call_logic_and_js(c.checks, v,
                     AndLoop("js", c.checks.el, v, 1, <<>>, h, <<>>))
      [] c.k = "or" ->
            IF im = "ts"
            THEN call_logic_or_ts(c.checks, v,
                     OrLoop("ts", c.checks.el, v, 1, <<>>, h, <<>>))
            ELSE call_logic_or_js(c.checks, v,
                     OrLoop("js", c.checks.el, v, 1, <<>>, h, <<>>))

(* ------------------------------ factories ------------------------------- *)
\* f.length of a closure: every closure of the library is function(received)
FnLength(x) == IF IsCheck(x) THEN 1 ELSE 0

\* checkCheck(check), check.js : "ok" or the sentinel it throws
checkCheck(check) ==
    IF TypeOf(check) # "function" THEN "ErrExpectedFunction"
    ELSE IF FnLength(check) # 1 THEN "ErrExpectedOneArgument"
    ELSE "ok"

\* checkChecks(...checks), check.js : checks is the list of its arguments
checkChecks(checks) ==
    IF Len(checks) = 0 THEN "ErrCheckHasNoChecks"
    ELSE LET bad == {i \in 1..Len(checks) : checkCheck(checks[i]) # "ok"} IN
         IF bad = {} THEN "ok"
         ELSE checkCheck(checks[CHOOSE i \in bad : \A j \in bad : i <= j])

\* Object.values(object) of a map of checks: a new array
ObjectValues(object) ==
    Arr("values", [i \in 1..Len(object.ent) |-> object.ent[i].check])

\* expect.any(...expected)
expect_any(expected) == Made([k |-> "any", expected |-> Arr("rest", expected)])

\* expect.value(expected)
expect_value(expected) == Made([k |-> "value", expected |-> expected])

\* expect.not(...expected)
expect_not(expected) == Made([k |-> "not", expected |-> Arr("rest", expected)])

\* expect.type(expected), check.ts
expect_type_ts(expected) == Made([k |-> "type", expected |-> expected])

\* expect.type(expected), check.js
expect_type_js(expected) ==
    IF TypeOf(expected) # "function" THEN Throw("ErrExpectedFunction")
    ELSE Made([k |-> "type", expected |-> expected])

\* expect.properties(expected), check.ts
expect_properties_ts(expected) ==
    IF Len(ObjectValues(expected).el) = 0 THEN Throw("ErrCheckHasNoChecks")
    ELSE Made([k |-> "properties", expected |-> expected])

\* expect.properties(object), check.js : checkChecks is handed one argument,
\* the array of the map's values
expect_properties_js(object) ==
    LET r == checkChecks(<<ObjectValues(object)>>) IN
    IF r # "ok" THEN Throw(r)
    ELSE Made([k |-> "properties", expected |-> object])

\* expect.forOf(check), check.ts
expect_forOf_ts(check) == Made([k |-> "forOf", check |-> check])

\* expect.forOf(check), check.js
expect_forOf_js(check) ==
    LET r == checkCheck(check) IN
    IF r # "ok" THEN Throw(r)
    ELSE Made([k |-> "forOf", check |-> check])

\* logic.and(...checks), check.ts
logic_and_ts(checks) == Made([k |-> "and", checks |-> Arr("rest", checks)])

\* logic.and(...checks), check.js
logic_and_js(checks) ==
    LET r == checkChecks(checks) IN
    IF r # "ok" THEN Throw(r)
    ELSE Made([k |-> "and", checks |-> Arr("rest", checks)])

\* logic.or(...checks), check.ts
logic_or_ts(checks) == Made([k |-> "or", checks |-> Arr("rest", checks)])

\* logic.or(...checks), check.js
logic_or_js(checks) ==
    LET r == checkChecks(checks) IN
    IF r # "ok" THEN Throw(r)
    ELSE Made([k |-> "or", checks |-> Arr("rest", checks)])

(* ------------------------------ entrypoint ------------------------------ *)
\* new Result() with its errors
Result(errors) == [k |-> "result", errors |-> errors]

\* return res : r is what check's loop gave
check_return(r) ==
    IF r.stop = "throw" THEN Ran(r.out, r.h, r.calls)
    ELSE Ran(Result(r.errs), r.h, r.calls)

\* check(received, ...checks), check.ts
check_ts(received, checks, h) ==
    IF Len(checks) = 0 THEN Ran(Throw("ErrCheckHasNoChecks"), h, <<>>)
    ELSE check_return(CheckLoop("ts", checks, received, 1, <<>>, h, <<>>))

\* check(received, ...checks), check.js
check_js(received, checks, h) ==
    IF checkChecks(checks) # "ok" THEN Ran(Throw(checkChecks(checks)), h, <<>>)
    ELSE check_return(CheckLoop("js", checks, received, 1, <<>>, h, <<>>))

(* ------------------------- what callers pass in ------------------------- *)
SeqsUpTo(S, n) == UNION {[1..m -> S] : m \in 0..n}

Impls == {"ts", "js"}

PrimVals == {Undefined, Num(1), Num(2), Str("3")}

EmptyObj == Obj([key \in Keys |-> Undefined])

Objects == {Obj(f) : f \in [Keys -> {Undefined, Num(1), Num(2)}]}

ElemVals == {Num(1), Num(2), Str("3"), EmptyObj,
             Arr("caller", <<Num(1)>>), Arr("caller", <<Num(2)>>)}

Arrays == {Arr("caller", el) : el \in SeqsUpTo(ElemVals, MaxLen)}

Values == PrimVals \cup Objects \cup Arrays

Ctors == {Fn("Number"), Fn("Array"), Fn("Object")}

\* lists of values handed to expect.any and expect.not
ValueLists == SeqsUpTo({Num(1), Num(2)}, MaxChecks)

\* the checks the factories of implementation im hand back
MadeBy(outs) == {o.check : o \in {x \in outs : x.k = "made"}}

expect_type(im, expected) ==
    IF im = "ts" THEN expect_type_ts(expected) ELSE expect_type_js(expected)

expect_forOf(im, c) ==
    IF im = "ts" THEN expect_forOf_ts(c) ELSE expect_forOf_js(c)

expect_properties(im, m) ==
    IF im = "ts" THEN expect_properties_ts(m) ELSE expect_properties_js(m)

logic_and(im, cs) == IF im = "ts" THEN logic_and_ts(cs) ELSE logic_and_js(cs)

logic_or(im, cs) == IF im = "ts" THEN logic_or_ts(cs) ELSE logic_or_js(cs)

Leaves(im) ==
    MadeBy({expect_value(Num(1)), expect_value(Num(2)),
            expect_type(im, Fn("Number")), expect_type(im, Fn("Array")),
            expect_not(<<Num(1)>>), expect_any(<<Num(1), Num(2)>>)})

\* the checks used as sub-checks
SubChecks(im) ==
    MadeBy({expect_value(Num(1)), expect_value(Num(2)),
            expect_type(im, Fn("Number"))})
    \cup MadeBy({expect_forOf(im, c) : c \in MadeBy({expect_value(Num(1))})})

CheckLists(im) == SeqsUpTo(SubChecks(im), MaxChecks)

\* an object literal whose fields are checks, its keys in insertion order
MapOf(ent) == [t |-> "object", ent |-> ent]

Entry(key, c) == [key |-> key, check |-> c]

Maps(im) ==
    {MapOf(ent) : ent \in
        {e \in SeqsUpTo({Entry(key, c) : key \in Keys, c \in SubChecks(im)},
                        Cardinality(Keys)) :
            \A i, j \in 1..Len(e) : i # j => e[i].key # e[j].key}}

ForOfs(im) ==
    LET one == MadeBy({expect_forOf(im, c) : c \in Leaves(im)})
    IN  one \cup MadeBy({expect_forOf(im, c) : c \in one})

\* every check a caller applies
Closures(im) ==
    Leaves(im) \cup ForOfs(im)
    \cup MadeBy({expect_properties(im, m) : m \in Maps(im)})
    \cup MadeBy({logic_and(im, cs) : cs \in CheckLists(im)})
    \cup MadeBy({logic_or(im, cs) : cs \in CheckLists(im)})

\* the input sets, computed once for each implementation
MapsOf == [im \in Impls |-> Maps(im)]

SubChecksOf == [im \in Impls |-> SubChecks(im)]

CheckListsOf == [im \in Impls |-> CheckLists(im)]

ClosuresOf == [im \in Impls |-> [name \in {"any", "value", "not", "type",
                  "properties", "forOf", "and", "or"} |->
                      {c \in Closures(im) : c.k = name}]]

(* ---------------------------- the state machine ------------------------- *)
NoCall == [kind |-> "none"]

Init ==
    /\ impl \in Impls
    /\ heap = [s \in Sentinels(impl) |-> Pristine]
    /\ pc = "idle"
    /\ call = NoCall
    /\ ret = RetUndefined
    /\ calls = <<>>

\* a factory call: it builds a check or throws, and touches nothing else
Factory(name, arg, out) ==
    /\ pc = "idle"
    /\ pc' = "returned"
    /\ call' = [kind |-> "factory", name |-> name, arg |-> arg]
    /\ ret' = out
    /\ calls' = <<>>
    /\ UNCHANGED <<impl, heap>>

New_any ==
    \E es \in ValueLists : Factory("any", Arr("rest", es), expect_any(es))

New_value ==
    \E e \in PrimVals : Factory("value", e, expect_value(e))

New_not ==
    \E es \in ValueLists : Factory("not", Arr("rest", es), expect_not(es))

New_type ==
    \E c \in Ctors : Factory("type", c, expect_type(impl, c))

New_properties ==
    \E m \in MapsOf[impl] : Factory("properties", m, expect_properties(impl, m))

New_forOf ==
    \E c \in SubChecksOf[impl] : Factory("forOf", c, expect_forOf(impl, c))

New_and ==
    \E cs \in CheckListsOf[impl] : Factory("and", Arr("rest", cs), logic_and(impl, cs))

New_or ==
    \E cs \in CheckListsOf[impl] : Factory("or", Arr("rest", cs), logic_or(impl, cs))

\* c(received) for a check c the library built
Call(name) ==
    /\ pc = "idle"
    /\ \E c \in ClosuresOf[impl][name], v \in Values :
        /\ pc' = "returned"
        /\ call' = [kind |-> "closure", name |-> name, check |-> c, received |-> v]
        /\ LET a == Apply(impl, c, v, heap) IN
             /\ ret' = a.out
             /\ heap' = a.h
             /\ calls' = a.calls
        /\ UNCHANGED impl

Call_any == Call("any")

Call_value == Call("value")

Call_not == Call("not")

Call_type == Call("type")

Call_properties == Call("properties")

Call_forOf == Call("forOf")

Call_and == Call("and")

Call_or == Call("or")

\* check(received, ...checks)
Check ==
    /\ pc = "idle"
    /\ \E cs \in CheckListsOf[impl], v \in Values :
        /\ pc' = "returned"
        /\ call' = [kind |-> "check", checks |-> cs, received |-> v]
        /\ LET a == IF impl = "ts" THEN check_ts(v, cs, heap)
                    ELSE check_js(v, cs, heap) IN
             /\ ret' = a.out
             /\ heap' = a.h
             /\ calls' = a.calls
        /\ UNCHANGED impl

\* the caller is done with what the call gave back and makes its next call
Return ==
    /\ pc = "returned"
    /\ pc' = "idle"
    /\ call' = NoCall
    /\ ret' = RetUndefined
    /\ calls' = <<>>
    /\ UNCHANGED <<impl, heap>>

Next ==
    \/ New_any \/ New_value \/ New_not \/ New_type
    \/ New_properties \/ New_forOf \/ New_and \/ New_or
    \/ Call_any \/ Call_value \/ Call_not \/ Call_type
    \/ Call_properties \/ Call_forOf \/ Call_and \/ Call_or
    \/ Check
    \/ Return

Spec == Init /\ [][Next]_vars

(* ------------------------------ the claims ------------------------------ *)
RECURSIVE FailuresFrom(_, _, _)

\* a call of the named kind of check has just returned or thrown
Applied(name) == pc = "returned" /\ call.kind = "closure" /\ call.name = name

\* the named factory has just returned or thrown
Built(name) == pc = "returned" /\ call.kind = "factory" /\ call.name = name

\* what the check c gives on v when it is called on its own (an outcome does
\* not depend on what the sentinels hold)
Returns(c, v) == Apply(impl, c, v, heap).out

Succeeds(c, v) == Returns(c, v).k = "undefined"

Fails(c, v) == Returns(c, v).k = "error"

\* the failure records of the failing checks among cs[i..], in order
FailuresFrom(cs, v, i) ==
    IF i > Len(cs) THEN <<>>
    ELSE IF Fails(cs[i], v) THEN <<Returns(cs[i], v).e>> \o FailuresFrom(cs, v, i + 1)
    ELSE FailuresFrom(cs, v, i + 1)

\* the child records of an aggregate failure
Children(e) ==
    IF "errs" \in DOMAIN e THEN e.errs
    ELSE IF "errors" \in DOMAIN e THEN e.errors
    ELSE <<>>

\* every check of cs invoked once on v, in list order
AllInvoked(cs, v) == calls = [i \in 1..Len(cs) |-> Invoked(i, v)]

\* C1: check(v, c1..cn) with n >= 1 invokes every ci exactly once on v in
\* declaration order and returns a Result whose errors are exactly the
\* defined returns of c1..cn in that order.
C1_CheckCollectsEveryFailure ==
    (pc = "returned" /\ call.kind = "check" /\ Len(call.checks) > 0) =>
        /\ ret.k = "result"
        /\ AllInvoked(call.checks, call.received)
        /\ ret.errors = FailuresFrom(call.checks, call.received, 1)
        /\ Len(ret.errors) =
             Cardinality({i \in 1..Len(call.checks) :
                             ~Succeeds(call.checks[i], call.received)})

\* C2: logic.and(c1..cn)(v) with n >= 1 succeeds iff every ci(v) succeeds,
\* and otherwise returns one aggregate failure whose children are exactly
\* the failing sub-checks' records, in sub-check order.
C2_AndRequiresAll ==
    (Applied("and") /\ Len(call.check.checks.el) > 0) =>
        LET cs == call.check.checks.el
            v == call.received
        IN  /\ ret.k = "undefined" <=> \A i \in 1..Len(cs) : Succeeds(cs[i], v)
            /\ ret.k # "undefined" =>
                 /\ ret.k = "error"
                 /\ Children(ret.e) = FailuresFrom(cs, v, 1)

\* the sub-checks of cs at which an application stops early: the ones that
\* throw on v, and for logic.or also the ones that succeed on v
Stops(name, cs, v) ==
    {i \in 1..Len(cs) :
        \/ Returns(cs[i], v).k = "throw"
        \/ name = "or" /\ Succeeds(cs[i], v)}

\* C3 as stated: one application of logic.and(c1..cn)(v) or of
\* logic.or(c1..cn)(v) invokes every ci on v exactly once, in order,
\* whatever the earlier sub-checks returned (stated here for the
\* applications in which every sub-check returns).
C3_NoShortCircuit ==
    LET cs == call.check.checks.el
    IN  ((Applied("and") \/ Applied("or"))
         /\ \A i \in 1..Len(cs) : Returns(cs[i], call.received).k # "throw") =>
            AllInvoked(cs, call.received)

\* C3, amended: one application of logic.and or logic.or invokes c1..ck on v,
\* each once and in order, where ck is the first sub-check at which it
\* stops (k = n when there is none): logic.and stops only at a sub-check
\* that throws, logic.or at the first sub-check that succeeds or throws.
C3_InvokesUpToFirstStop ==
    (Applied("and") \/ Applied("or")) =>
        LET cs == call.check.checks.el
            v == call.received
            stops == Stops(call.name, cs, v)
            k == IF stops = {} THEN Len(cs)
                 ELSE CHOOSE i \in stops : \A j \in stops : i <= j
        IN  calls = [i \in 1..k |-> Invoked(i, v)]

\* logic.or returned success after its first sub-check and never called
\* the second one
C3_Witness ==
    /\ Applied("or")
    /\ Len(call.check.checks.el) = 2
    /\ ret.k = "undefined"
    /\ Len(calls) = 1

\* C4: check(v), logic.and() and logic.or() with zero checks each throw a
\* configuration error, in both implementations.
C4_EmptyListRejected ==
    /\ (pc = "returned" /\ call.kind = "check" /\ Len(call.checks) = 0) =>
          ret = Throw("ErrCheckHasNoChecks")
    /\ ((Built("and") \/ Built("or")) /\ Len(call.arg.el) = 0) =>
          ret = Throw("ErrCheckHasNoChecks")

\* child is the record e with field set to val
Annotated(child, e, field, val) ==
    IF IsSentinel(e) THEN child = e /\ Field(child, field, heap) = {val}
    ELSE child = (field :> val) @@ e

\* the positions of cs whose check fails on its argument, in order; arg(i)
\* is the argument of the check at position i
FailingPositions(n, F(_)) ==
    LET RECURSIVE From(_)
        From(i) == IF i > n THEN <<>>
                   ELSE IF F(i) THEN <<i>> \o From(i + 1)
                   ELSE From(i + 1)
    IN  From(1)

\* C5: expect.properties(m) with a non-empty map m is constructed without
\* throwing, and on an object v it applies m[k] to v[k] for every key k,
\* succeeds iff all of them succeed, and otherwise returns one failure
\* record whose errs are exactly the failing sub-checks' records, each with
\* property = its key, in key order; in both implementations.
C5_Properties ==
    /\ (Built("properties") /\ Len(call.arg.ent) > 0) => ret.k = "made"
    /\ (Applied("properties") /\ call.received.t = "object") =>
          LET ent == call.check.expected.ent
              v == call.received
              bad == FailingPositions(Len(ent),
                         LAMBDA i : Fails(ent[i].check, Get(v, ent[i].key)))
          IN  /\ calls = [i \in 1..Len(ent) |-> Invoked(i, Get(v, ent[i].key))]
              /\ ret.k = "undefined" <=>
                   \A i \in 1..Len(ent) : Succeeds(ent[i].check, Get(v, ent[i].key))
              /\ ret.k # "undefined" =>
                   /\ ret.k = "error"
                   /\ Len(Children(ret.e)) = Len(bad)
                   /\ \A j \in 1..Len(bad) :
                        Annotated(Children(ret.e)[j],
                                  Returns(ent[bad[j]].check, Get(v, ent[bad[j]].key)).e,
                                  "property", ent[bad[j]].key)

\* C6: expect.type(ctor)(v) succeeds iff v's constructor is ctor, and
\* otherwise returns a failure record with expected = ctor and received =
\* v's constructor; in both implementations.
C6_TypeIsConstructorIdentity ==
    Applied("type") =>
        LET ctor == call.check.expected
            v == call.received
        IN  /\ ret.k = "undefined" <=> Constructor(v) = ctor
            /\ ret.k # "undefined" =>
                 /\ ret.k = "error"
                 /\ ret.e.expected = ctor
                 /\ ret.e.received = Constructor(v)

\* C7: expect.not(e1..en)(v) with n >= 1 succeeds iff v strictly equals none
\* of the ei, and otherwise returns a failure record with expected = the
\* excluded list and received = v.
C7_NotExcludes ==
    (Applied("not") /\ Len(call.check.expected.el) > 0) =>
        LET ex == call.check.expected
            v == call.received
        IN  /\ ret.k = "undefined" <=>
                 \A i \in 1..Len(ex.el) : ~StrictEq(v, ex.el[i])
            /\ ret.k # "undefined" =>
                 /\ ret.k = "error"
                 /\ ret.e.expected = ex
                 /\ ret.e.received = v

\* the values the iteration protocol accepts: arrays and strings
IsIterable(v) == v.t \in {"array", "string"}

\* the failure names the ErrNotIterable sentinel
NamesNotIterable(e) ==
    \/ e = Sentinel("ErrNotIterable")
    \/ "err" \in DOMAIN e /\ e.err = Sentinel("ErrNotIterable")

\* C8: for any non-iterable v, primitive or plain object, expect.forOf(c)(v)
\* throws nothing: it returns a failure naming ErrNotIterable and never
\* invokes c.
C8_NotIterableIsAFailure ==
    (Applied("forOf") /\ ~IsIterable(call.received)) =>
        /\ ret.k = "error"
        /\ NamesNotIterable(ret.e)
        /\ calls = <<>>

\* the elements an iterable produces: an array its elements, a string its
\* characters (every string here is one character long)
Elements(v) == IF v.t = "array" THEN v.el ELSE <<v>>

\* C9: on an iterable producing x0..x(n-1), expect.forOf(c) applies c to
\* every element in order, succeeds iff c succeeds on all of them, and
\* otherwise returns one failure record whose children are exactly the
\* failures of the failing elements, each with index = the zero-based
\* position of its element, in increasing index order.
C9_ForOfIndexesFailures ==
    (Applied("forOf") /\ IsIterable(call.received)) =>
        LET c == call.check.check
            el == Elements(call.received)
            bad == FailingPositions(Len(el), LAMBDA i : Fails(c, el[i]))
        IN  /\ calls = [i \in 1..Len(el) |-> Invoked(i - 1, el[i])]
            /\ ret.k = "undefined" <=> \A i \in 1..Len(el) : Succeeds(c, el[i])
            /\ ret.k # "undefined" =>
                 /\ ret.k = "error"
                 /\ Len(Children(ret.e)) = Len(bad)
                 /\ \A j \in 1..Len(bad) :
                      Annotated(Children(ret.e)[j], Returns(c, el[bad[j]]).e,
                                "index", bad[j] - 1)

\* C10: the module-level sentinel errors are never written: after any
\* sequence of constructions and evaluations each of them is as it was
\* created; in both implementations.
C10_SentinelsUnchanged ==
    \A s \in Sentinels(impl) : heap[s] = Pristine

====
